---- MODULE Spec2Model ----
(***************************************************************************)
(* A model of the trashly-core container (class Trashly): one rooted tree  *)
(* of JSON-like data, a linear history of patches with a pointer, and a    *)
(* pause mode that coalesces changes.  Trees are modelled the way the      *)
(* JavaScript values behave under lodash set / unset / cloneDeep.          *)
(* A second state machine, SpecSharing, follows function applyPatch and     *)
(* Trashly.mutate over an object graph, where the identity of the nodes of *)
(* two snapshots can be told apart.                                        *)
(* SpecKeys is the container on a snapshot of scalar keys, SpecSubscribed  *)
(* the container with its subscribers, SpecLiquor the LiquorStore variant  *)
(* whose mutate diffs a draft and applies the patch.                       *)
(***************************************************************************)
EXTENDS Integers, Sequences, FiniteSets, TLC

(***************************************************************************)
(* Bounds of the model.                                                    *)
(***************************************************************************)
\* the number of public calls the callers make on one container
MaxCalls == 6

\* the number of differences in a patch handed to function applyPatch
MaxPatch == 2

\* the calls made on the container with scalar keys, and on the one with
\* subscribers
MaxSets == 4

(***************************************************************************)
(* JavaScript values.  Every node is a record with the same three fields:  *)
(*   type  : "scalar" | "undefined" | "object" | "array"                   *)
(*   num   : the number held by a scalar, the length of an array, else 0   *)
(*   props : own enumerable properties, a function from key strings        *)
(* Property keys are strings, array indices included ("0", "1", ...), as   *)
(* in JavaScript.  An array index below the length that is not in the      *)
(* domain of props is a hole.                                              *)
(***************************************************************************)
NoProps == <<>>

Scalar(v) == [type |-> "scalar", num |-> v, props |-> NoProps]

Undefined == [type |-> "undefined", num |-> 0, props |-> NoProps]

Obj(f) == [type |-> "object", num |-> 0, props |-> f]

Arr(n, f) == [type |-> "array", num |-> n, props |-> f]

\* the decimal strings of the array indices 0, 1, 2, ...
IndexKeys == <<"0", "1", "2", "3", "4">>

IndexKey(i) == IndexKeys[i + 1]

isIndex(k) == \E i \in 1..Len(IndexKeys) : IndexKeys[i] = k

IndexOf(k) == (CHOOSE i \in 1..Len(IndexKeys) : IndexKeys[i] = k) - 1

\* the order in which the keys of a node are enumerated
KeyOrder ==
  IndexKeys \o <<"age", "tags", "a", "b", "c", "d", "v", "w">>

isObject(node) == node.type \in {"object", "array"}

Has(node, k) == k \in DOMAIN node.props

\* node[k]
Get(node, k) == IF Has(node, k) THEN node.props[k] ELSE Undefined

\* node[k] = v : writing an index at or past the length of an array grows it
Assign(node, k, v) ==
  IF ~isObject(node) THEN node
  ELSE [type |-> node.type,
        num |-> IF node.type = "array" /\ isIndex(k) /\ IndexOf(k) >= node.num
                THEN IndexOf(k) + 1 ELSE node.num,
        props |-> [j \in DOMAIN node.props \cup {k} |->
                     IF j = k THEN v ELSE node.props[j]]]

\* delete node[k] : the length of an array is left as it is
Delete(node, k) ==
  IF ~isObject(node) THEN node
  ELSE [node EXCEPT !.props = [j \in DOMAIN node.props \ {k} |-> node.props[j]]]

(***************************************************************************)
(* lodash.set, lodash.unset and lodash.clonedeep, as the container uses    *)
(* them on its private working copies.  A path is a sequence of keys.      *)
(***************************************************************************)
RECURSIVE set(_, _, _)
\* set(object, path, value): walks the path, creating an array (next key is
\* an index) or an object for every step that is not already an object
set(object, path, value) ==
  IF ~isObject(object) \/ path = <<>> THEN object
  ELSE IF Len(path) = 1 THEN Assign(object, path[1], value)
  ELSE LET objValue == Get(object, path[1])
           nested == IF isObject(objValue) THEN objValue
                     ELSE IF isIndex(path[2]) THEN Arr(0, NoProps)
                     ELSE Obj(NoProps)
       IN  Assign(object, path[1], set(nested, Tail(path), value))

RECURSIVE unset(_, _)
\* unset(object, path): delete parent[last key]; nothing when the parent is
\* missing.  On an array the slot becomes a hole and the length stays.
unset(object, path) ==
  IF ~isObject(object) \/ path = <<>> THEN object
  ELSE IF Len(path) = 1 THEN Delete(object, path[1])
  ELSE IF ~Has(object, path[1]) THEN object
  ELSE [object EXCEPT !.props[path[1]] = unset(@, Tail(path))]

RECURSIVE cloneDeep(_)
\* cloneDeep(value): a structural copy; the copy of an array has every index
\* below its length as an own property, so a hole is copied as undefined
cloneDeep(value) ==
  IF value.type = "object"
    THEN Obj([k \in DOMAIN value.props |-> cloneDeep(value.props[k])])
  ELSE IF value.type = "array"
    THEN Arr(value.num,
             [k \in {IndexKey(i) : i \in 0..(value.num - 1)} |->
                cloneDeep(Get(value, k))])
  ELSE value

(***************************************************************************)
(* The tree differ (./diff).  A Difference is a record                     *)
(*   [type: CREATE | CHANGE | REMOVE, path, value, oldValue]               *)
(* where the side a kind does not carry is undefined.                      *)
(***************************************************************************)
Difference(type, path, value, oldValue) ==
  [type |-> type, path |-> path, value |-> value, oldValue |-> oldValue]

RECURSIVE diffFrom(_, _, _, _)
\* the differences of obj and newObj under the keys KeyOrder[i..], depth
\* first, in key enumeration order
diffFrom(obj, newObj, path, i) ==
  IF i > Len(KeyOrder) THEN <<>>
  ELSE LET key == KeyOrder[i]
           here ==
             IF ~Has(obj, key) /\ ~Has(newObj, key) THEN <<>>
             ELSE IF ~Has(obj, key)
               THEN <<Difference("CREATE", Append(path, key),
                                 newObj.props[key], Undefined)>>
             ELSE IF ~Has(newObj, key)
               THEN <<Difference("REMOVE", Append(path, key),
                                 Undefined, obj.props[key])>>
             ELSE IF obj.props[key] = newObj.props[key] THEN <<>>
             ELSE IF isObject(obj.props[key]) /\ isObject(newObj.props[key])
               THEN diffFrom(obj.props[key], newObj.props[key],
                             Append(path, key), 1)
             ELSE <<Difference("CHANGE", Append(path, key),
                               newObj.props[key], obj.props[key])>>
       IN  here \o diffFrom(obj, newObj, path, i + 1)

diff(obj, newObj) == diffFrom(obj, newObj, <<>>, 1)

(***************************************************************************)
(* Mutators.  mutate(mutator) runs a caller's function on a deep copy of   *)
(* current; the model draws the function from a small set of draft         *)
(* programs, each one JavaScript statement on the draft.                   *)
(***************************************************************************)
RECURSIVE GetIn(_, _)
\* the value at a path (undefined when a step is missing)
GetIn(node, path) ==
  IF path = <<>> THEN node ELSE GetIn(Get(node, path[1]), Tail(path))

RECURSIVE PutIn(_, _, _)
\* the tree with the node at an existing path replaced
PutIn(node, path, child) ==
  IF path = <<>> THEN child
  ELSE [node EXCEPT !.props[path[1]] = PutIn(@, Tail(path), child)]

Front(path) == SubSeq(path, 1, Len(path) - 1)

Last(path) == path[Len(path)]

\* array.pop()
Pop(array) ==
  IF array.num = 0 THEN array
  ELSE Arr(array.num - 1,
           [k \in DOMAIN array.props \ {IndexKey(array.num - 1)} |->
              array.props[k]])

\* the mutator runs without a TypeError on this draft
Runs(mutator, draft) ==
  CASE mutator.op = "noop" -> TRUE
    [] mutator.op \in {"assign", "delete"} ->
         isObject(GetIn(draft, Front(mutator.path)))
    [] mutator.op = "push" ->
         /\ GetIn(draft, mutator.path).type = "array"
         /\ GetIn(draft, mutator.path).num < Len(IndexKeys)
    [] mutator.op = "pop" -> GetIn(draft, mutator.path).type = "array"

\* the draft after the mutator ran on it
Run(mutator, draft) ==
  CASE mutator.op = "noop" -> draft
    [] mutator.op = "assign" ->
         PutIn(draft, Front(mutator.path),
               Assign(GetIn(draft, Front(mutator.path)), Last(mutator.path),
                      mutator.value))
    [] mutator.op = "delete" ->
         PutIn(draft, Front(mutator.path),
               Delete(GetIn(draft, Front(mutator.path)), Last(mutator.path)))
    [] mutator.op = "push" ->
         PutIn(draft, mutator.path,
               Assign(GetIn(draft, mutator.path),
                      IndexKey(GetIn(draft, mutator.path).num), mutator.value))
    [] mutator.op = "pop" ->
         PutIn(draft, mutator.path, Pop(GetIn(draft, mutator.path)))

Mutator(op, path, value) == [op |-> op, path |-> path, value |-> value]

(***************************************************************************)
(* class Trashly.  A store is the record of the instance's fields.         *)
(***************************************************************************)
\* a container constructed in a pause
TrashlyPaused(initial) ==
  [prev |-> initial, current |-> initial, pointer |-> -1, history |-> <<>>,
   isPaused |-> TRUE, didChangeWhilePaused |-> FALSE]

\* constructor(initial)
Trashly(initial) ==
  [prev |-> initial, current |-> initial, pointer |-> -1, history |-> <<>>,
   isPaused |-> FALSE, didChangeWhilePaused |-> FALSE]

\* splice read as what it leaves in the array: the entries after the front
spliceLeavesRest(history, count) ==
  SubSeq(history, (IF count < Len(history) THEN count ELSE Len(history)) + 1,
         Len(history))

\* this.history.splice(0, this.pointer + 1): the removed front part
splice(history, count) ==
  SubSeq(history, 1, IF count < Len(history) THEN count ELSE Len(history))

\* history[index], indices counted from 0
at(history, index) == history[index + 1]

\* willChange taking the snapshot at every change, pending or not
willChangeAlways(this) ==
  IF this.isPaused
    THEN [this EXCEPT !.prev = this.current, !.didChangeWhilePaused = TRUE]
    ELSE [this EXCEPT !.prev = this.current]

\* willChange leaving prev as it is when not paused
willChangeKeepsPrev(this) ==
  IF this.isPaused
    THEN IF ~this.didChangeWhilePaused
           THEN [this EXCEPT !.prev = this.current,
                             !.didChangeWhilePaused = TRUE]
           ELSE this
    ELSE this

willChange(this) ==
  IF this.isPaused
    THEN IF ~this.didChangeWhilePaused
           THEN [this EXCEPT !.prev = this.current,
                             !.didChangeWhilePaused = TRUE]
           ELSE this
    ELSE [this EXCEPT !.prev = this.current]

\* didChange without its test of isPaused
didChangeEvenPaused(this) ==
  [this EXCEPT
     !.history = Append(splice(this.history, this.pointer + 1),
                        diff(this.prev, this.current)),
     !.pointer = this.pointer + 1]

\* didChange committing only a patch that is not empty
didChangeSkipsEmpty(this) ==
  IF ~this.isPaused /\ diff(this.prev, this.current) # <<>>
    THEN [this EXCEPT
            !.history = Append(splice(this.history, this.pointer + 1),
                               diff(this.prev, this.current)),
            !.pointer = this.pointer + 1]
    ELSE this

didChange(this) ==
  IF ~this.isPaused
    THEN [this EXCEPT
            !.history = Append(splice(this.history, this.pointer + 1),
                               diff(this.prev, this.current)),
            !.pointer = this.pointer + 1]
    ELSE this

RECURSIVE applyItems(_, _, _)
\* the loop of applyPatch over patch[i..], forward
applyItems(next, items, i) ==
  IF i > Len(items) THEN next
  ELSE LET item == items[i]
       IN  applyItems(
             IF item.type \in {"CREATE", "CHANGE"}
               THEN set(next, item.path, item.value)
               ELSE unset(next, item.path),
             items, i + 1)

\* default: throw new Error(...): the loop meets an item whose type is not
\* CREATE, CHANGE or REMOVE
Throws(items) ==
  \E i \in 1..Len(items) : items[i].type \notin {"CREATE", "CHANGE", "REMOVE"}

\* the fields when applyPatch returns or throws: a throw leaves the loop
\* before any field is written
applyPatch(this, items) ==
  IF Throws(items) THEN this
  ELSE [this EXCEPT !.prev = this.current,
                    !.current = applyItems(cloneDeep(this.current), items, 1)]

canUndo(this) ==
  \/ this.pointer >= 0
  \/ this.pointer = 0 /\ this.isPaused /\ this.didChangeWhilePaused

canRedo(this) == this.pointer < Len(this.history) - 1

\* patch recording what it applied as a history entry
patchCommits(this, items) == didChange(applyPatch(willChange(this), items))

patch(this, items) == applyPatch(willChange(this), items)

replaceState(this, state) ==
  LET changing == willChange(this)
  IN  didChange([changing EXCEPT !.prev = changing.current,
                                 !.current = state])

\* { ...this.current, ...state }
Spread(current, state) ==
  Obj([k \in DOMAIN current.props \cup DOMAIN state |->
         IF k \in DOMAIN state THEN state[k] ELSE current.props[k]])

setState(this, state) ==
  didChange([willChange(this) EXCEPT !.current = Spread(this.current, state)])

mutate(this, mutator) ==
  LET next == Run(mutator, cloneDeep(this.current))
  IN  didChange([willChange(this) EXCEPT !.current = next])

\* pause taking the snapshot resume() diffs against
pauseTakesSnapshot(this) ==
  [this EXCEPT !.isPaused = TRUE, !.prev = this.current]

\* pause beginning the pause anew, what changed so far forgotten
pauseRestarts(this) ==
  [this EXCEPT !.isPaused = TRUE, !.didChangeWhilePaused = FALSE]

pause(this) == [this EXCEPT !.isPaused = TRUE]

\* resume committing an entry whether or not a change was made
resumeCommitsAlways(this) ==
  [this EXCEPT
     !.prev = this.current,
     !.history = Append(splice(this.history, this.pointer + 1),
                        diff(this.prev, this.current)),
     !.pointer = this.pointer + 1,
     !.didChangeWhilePaused = FALSE,
     !.isPaused = FALSE]

resume(this) ==
  IF this.didChangeWhilePaused
    THEN [this EXCEPT
            !.prev = this.current,
            !.history = Append(splice(this.history, this.pointer + 1),
                               diff(this.prev, this.current)),
            !.pointer = this.pointer + 1,
            !.didChangeWhilePaused = FALSE,
            !.isPaused = FALSE]
    ELSE [this EXCEPT !.isPaused = FALSE]

RECURSIVE undoItems(_, _, _)
\* the loop of undo over patch[i..]: first recorded difference first
undoItems(next, items, i) ==
  IF i > Len(items) THEN next
  ELSE LET item == items[i]
       IN  undoItems(
             IF item.type = "CREATE" THEN unset(next, item.path)
             ELSE set(next, item.path, item.oldValue),
             items, i + 1)

RECURSIVE undoSteps(_, _, _)
\* next as it is after each pass of the loop of undo over patch[i..]
undoSteps(next, items, i) ==
  IF i > Len(items) THEN <<>>
  ELSE LET item == items[i]
           after == IF item.type = "CREATE" THEN unset(next, item.path)
                    ELSE set(next, item.path, item.oldValue)
       IN  <<after>> \o undoSteps(after, items, i + 1)

\* undo leaving the pause without committing what changed in it
undoResumeKeepsPending(this) == [this EXCEPT !.isPaused = FALSE]

\* the first block of undo: leave the pause, committing what changed in it
undoResume(this) ==
  IF this.isPaused
    THEN IF this.didChangeWhilePaused
           THEN [this EXCEPT
                   !.history = Append(splice(this.history, this.pointer + 1),
                                      diff(this.prev, this.current)),
                   !.pointer = Len(splice(this.history, this.pointer + 1)),
                   !.didChangeWhilePaused = FALSE,
                   !.isPaused = FALSE]
           ELSE [this EXCEPT !.isPaused = FALSE]
    ELSE this

undo(this) ==
  LET resumed == undoResume(this)
  IN  IF ~canUndo(resumed) THEN resumed
      ELSE [resumed EXCEPT
              !.pointer = resumed.pointer - 1,
              !.prev = resumed.current,
              !.current = undoItems(cloneDeep(resumed.current),
                                    at(resumed.history, resumed.pointer), 1)]

\* redo committing an entry whenever paused, changed or not
redoCommitsWhenPaused(this) ==
  IF this.isPaused
    THEN [this EXCEPT
            !.history = Append(splice(this.history, this.pointer + 1),
                               diff(this.prev, this.current)),
            !.pointer = Len(splice(this.history, this.pointer + 1)),
            !.didChangeWhilePaused = FALSE]
    ELSE IF ~canRedo(this) THEN this
         ELSE applyPatch([this EXCEPT !.pointer = this.pointer + 1],
                         at(this.history, this.pointer + 1))

\* redo committing what is pending the way resume does
redoResumesPending(this) ==
  IF this.isPaused /\ this.didChangeWhilePaused
    THEN resume(this)
    ELSE LET resumed == [this EXCEPT !.isPaused = FALSE]
         IN  IF ~canRedo(resumed) THEN resumed
             ELSE applyPatch([resumed EXCEPT !.pointer = resumed.pointer + 1],
                             at(resumed.history, resumed.pointer + 1))

redo(this) ==
  IF this.isPaused /\ this.didChangeWhilePaused
    THEN [this EXCEPT
            !.history = Append(splice(this.history, this.pointer + 1),
                               diff(this.prev, this.current)),
            !.pointer = Len(splice(this.history, this.pointer + 1)),
            !.didChangeWhilePaused = FALSE]
    ELSE LET resumed == [this EXCEPT !.isPaused = FALSE]
         IN  IF ~canRedo(resumed) THEN resumed
             ELSE applyPatch([resumed EXCEPT !.pointer = resumed.pointer + 1],
                             at(resumed.history, resumed.pointer + 1))

(***************************************************************************)
(* What the subscribed listeners are called with: the store as it is at    *)
(* each call of notifySubscribers made by one public operation, in order.  *)
(***************************************************************************)
\* this.listeners.forEach((l) => l()): every listener runs once and reads
\* the store as it is now
notifySubscribers(this) == <<this>>

\* the callbacks run by a call that made the notifications seen
forEach(listeners, seen) == IF seen = <<>> THEN {} ELSE listeners

\* the unsubscribe function leaving the callback in the set
unsubscribeKeeps(listeners, listener) == listeners

\* () => this.listeners.delete(listener)
unsubscribe(listeners, listener) == listeners \ {listener}

\* this.listeners.add(listener)
subscribe(listeners, listener) == listeners \cup {listener}

setStateSeen(this, state) == notifySubscribers(setState(this, state))

mutateSeen(this, mutator) == notifySubscribers(mutate(this, mutator))

replaceStateSeen(this, state) == notifySubscribers(replaceState(this, state))

\* a patch that throws does not reach notifySubscribers
patchSeen(this, items) ==
  IF Throws(items) THEN <<>> ELSE notifySubscribers(patch(this, items))

pauseSeen(this) == notifySubscribers(pause(this))

\* resume notifying before it leaves the pause
resumeSeenStillPaused(this) ==
  notifySubscribers([resume(this) EXCEPT !.isPaused = TRUE])

resumeSeen(this) == notifySubscribers(resume(this))

\* if (!this.canUndo) return: the listeners are not called
undoSeen(this) ==
  IF ~canUndo(undoResume(this)) THEN <<>>
  ELSE notifySubscribers(undo(this))

\* both returns of redo come before any call of the listeners
redoSeen(this) ==
  IF this.isPaused /\ this.didChangeWhilePaused THEN <<>>
  ELSE IF ~canRedo([this EXCEPT !.isPaused = FALSE]) THEN <<>>
  ELSE notifySubscribers(redo(this))

(***************************************************************************)
(* Snapshots as object graphs.  Where identity matters (which nodes two    *)
(* snapshots share, which node a write lands in) a snapshot is a value     *)
(* over a heap: a sequence of cells, the address of a cell being its       *)
(* index.                                                                  *)
(*   value : [tag: "num" | "undefined" | "symbol" | "ref", v]              *)
(*   cell  : [array, length, props], props from key strings to values      *)
(***************************************************************************)
HNum(v) == [tag |-> "num", v |-> v]

HUndefined == [tag |-> "undefined", v |-> 0]

HRef(address) == [tag |-> "ref", v |-> address]

\* const REMOVE_SYMBOL = Symbol("remove")
REMOVE_SYMBOL == [tag |-> "symbol", v |-> 0]

\* the symbol as a node of a tree
SymbolNode == [type |-> "symbol", num |-> 0, props |-> NoProps]

Cell(array, length, props) ==
  [array |-> array, length |-> length, props |-> props]

\* a new object: the heap with the cell added, and the reference to it
New(heap, cell) ==
  [heap |-> Append(heap, cell), value |-> HRef(Len(heap) + 1)]

RECURSIVE Place(_, _), PlaceProps(_, _, _, _)
\* the children of a literal under the keys still to place
PlaceProps(heap, node, keys, props) ==
  IF keys = {} THEN [heap |-> heap, props |-> props]
  ELSE LET k == CHOOSE key \in keys : TRUE
           child == Place(heap, node.props[k])
       IN  PlaceProps(child.heap, node, keys \ {k},
                      [j \in DOMAIN props \cup {k} |->
                         IF j = k THEN child.value ELSE props[j]])

\* the evaluation of an object or array literal: one new cell per composite
\* node
Place(heap, node) ==
  IF node.type = "scalar" THEN [heap |-> heap, value |-> HNum(node.num)]
  ELSE IF node.type = "undefined" THEN [heap |-> heap, value |-> HUndefined]
  ELSE IF node.type = "symbol" THEN [heap |-> heap, value |-> REMOVE_SYMBOL]
  ELSE LET placed == PlaceProps(heap, node, DOMAIN node.props, NoProps)
       IN  New(placed.heap,
               Cell(node.type = "array", node.num, placed.props))

RECURSIVE Tree(_, _)
\* the tree a value is the root of
Tree(heap, value) ==
  IF value.tag = "num" THEN Scalar(value.v)
  ELSE IF value.tag = "undefined" THEN Undefined
  ELSE IF value.tag = "symbol" THEN SymbolNode
  ELSE LET cell == heap[value.v]
       IN  [type |-> IF cell.array THEN "array" ELSE "object",
            num |-> cell.length,
            props |-> [k \in DOMAIN cell.props |-> Tree(heap, cell.props[k])]]

\* object[k]
HeapGet(heap, address, k) ==
  IF k \in DOMAIN heap[address].props THEN heap[address].props[k]
  ELSE HUndefined

\* object[k] = value, in place
HeapPut(heap, address, k, value) ==
  LET cell == heap[address]
  IN  [heap EXCEPT ![address] =
         Cell(cell.array,
              IF cell.array /\ isIndex(k) /\ IndexOf(k) >= cell.length
                THEN IndexOf(k) + 1 ELSE cell.length,
              [j \in DOMAIN cell.props \cup {k} |->
                 IF j = k THEN value ELSE cell.props[j]])]

\* delete object[k], in place
HeapDelete(heap, address, k) ==
  LET cell == heap[address]
  IN  [heap EXCEPT ![address] =
         Cell(cell.array, cell.length,
              [j \in DOMAIN cell.props \ {k} |-> cell.props[j]])]

RECURSIVE At(_, _, _)
\* the value at a path under a value (undefined when a step is missing)
At(heap, value, path) ==
  IF path = <<>> THEN value
  ELSE IF value.tag # "ref" THEN HUndefined
  ELSE At(heap, HeapGet(heap, value.v, path[1]), Tail(path))

\* Object.assign({}, source): a new plain object with the own enumerable
\* properties of source, none when source is undefined or a primitive
ObjectAssign(heap, source) ==
  New(heap, Cell(FALSE, 0,
                 IF source.tag = "ref" THEN heap[source.v].props ELSE NoProps))

\* array.slice(): a new array with the same elements and holes
slice(heap, array) == New(heap, heap[array.v])

\* array.filter((x) => x !== REMOVE_SYMBOL): a new dense array of the
\* elements kept, holes skipped
filter(heap, array) ==
  LET cell == heap[array.v]
      kept == SelectSeq([i \in 1..cell.length |-> IndexKey(i - 1)],
                        LAMBDA k : /\ k \in DOMAIN cell.props
                                   /\ cell.props[k] # REMOVE_SYMBOL)
  IN  New(heap, Cell(TRUE, Len(kept),
                     [k \in {IndexKey(i - 1) : i \in 1..Len(kept)} |->
                        cell.props[kept[IndexOf(k) + 1]]]))

(***************************************************************************)
(* function applyPatch(target, patch): the copy-on-write applier.  A run   *)
(* is the record of its locals and of what it did to the heap:             *)
(*   [heap, refs, delQueue, threw]                                         *)
(***************************************************************************)
Thrown(run) == [run EXCEPT !.threw = TRUE]

RECURSIVE descend(_, _, _, _)
\* the for loop over the steps path[i..] before the last key, from node t:
\* a step is copied unless its key is in refs already
descend(run, t, path, i) ==
  IF i > Len(path) - 1 THEN [run |-> run, t |-> t]
  ELSE LET step == path[i]
       IN  IF t.tag = "undefined" THEN [run |-> Thrown(run), t |-> t]
           ELSE IF step \notin run.refs
             THEN IF t.tag # "ref" THEN [run |-> Thrown(run), t |-> t]
                  ELSE LET copy == ObjectAssign(run.heap,
                                                HeapGet(run.heap, t.v, step))
                       IN  descend(
                             [run EXCEPT
                                !.refs = @ \cup {step},
                                !.heap = HeapPut(copy.heap, t.v, step,
                                                 copy.value)],
                             copy.value, path, i + 1)
           ELSE descend(run,
                        IF t.tag = "ref" THEN HeapGet(run.heap, t.v, step)
                        ELSE HUndefined,
                        path, i + 1)

\* the body of patch.forEach for one item, on the copy next
applyItem(run, next, item) ==
  LET walked == descend(run, next, item.path, 1)
      ran == walked.run
      t == walked.t
      lastKey == item.path[Len(item.path)]
  IN  IF ran.threw THEN ran
      ELSE IF item.type \in {"CREATE", "CHANGE"}
        THEN IF t.tag # "ref" THEN Thrown(ran)
             ELSE LET placed == Place(ran.heap, item.value)
                  IN  [ran EXCEPT
                         !.heap = HeapPut(placed.heap, t.v, lastKey,
                                          placed.value)]
      ELSE IF item.type = "REMOVE"
        THEN IF t.tag = "undefined" THEN Thrown(ran)
             ELSE IF t.tag # "ref" THEN ran
             ELSE IF ran.heap[t.v].array
               THEN [ran EXCEPT
                       !.heap = HeapPut(@, t.v, lastKey, REMOVE_SYMBOL),
                       !.delQueue =
                          Append(@, [t |-> t, secondToLastKey |-> lastKey])]
             ELSE [ran EXCEPT !.heap = HeapDelete(@, t.v, lastKey)]
      ELSE Thrown(ran)

RECURSIVE forEachItem(_, _, _, _)
\* patch.forEach over patch[i..], until an item throws
forEachItem(run, next, items, i) ==
  IF i > Len(items) \/ run.threw THEN run
  ELSE forEachItem(applyItem(run, next, items[i]), next, items, i + 1)

RECURSIVE forEachQueued(_, _)
\* delQueue.forEach((t) => t()) over delQueue[i..]: each function replaces
\* t[secondToLastKey] by its filter(), a TypeError when what is there has no
\* filter method
forEachQueued(run, i) ==
  IF i > Len(run.delQueue) \/ run.threw THEN run
  ELSE LET queued == run.delQueue[i]
           held == HeapGet(run.heap, queued.t.v, queued.secondToLastKey)
       IN  IF held.tag = "ref" /\ run.heap[held.v].array
             THEN LET filtered == filter(run.heap, held)
                  IN  forEachQueued(
                        [run EXCEPT
                           !.heap = HeapPut(filtered.heap, queued.t.v,
                                            queued.secondToLastKey,
                                            filtered.value)],
                        i + 1)
             ELSE Thrown(run)

\* applyPatch(target, patch): the heap afterwards, the value returned and
\* whether it threw instead
applyPatchTo(heap, target, items) ==
  LET next == IF heap[target.v].array THEN slice(heap, target)
              ELSE ObjectAssign(heap, target)
      each == forEachItem([heap |-> next.heap, refs |-> {},
                           delQueue |-> <<>>, threw |-> FALSE],
                          next.value, items, 1)
      ran == forEachQueued(each, 1)
  IN  [heap |-> ran.heap,
       value |-> IF ran.threw THEN HUndefined ELSE next.value,
       threw |-> ran.threw]

\* applyPatch(target, patch) as the tree it returns; undefined if it throws
applyPatchOf(target, items) ==
  LET placed == Place(<<>>, target)
      done == applyPatchTo(placed.heap, placed.value, items)
  IN  Tree(done.heap, done.value)

\* LiquorStore.mutate: the draft is diffed against current and the patch is
\* applied to current; prev is assigned at every call
LiquorStoreMutate(this, mutator) ==
  LET draft == Run(mutator, cloneDeep(this.current))
      given == diff(this.current, draft)
      next == applyPatchOf(this.current, given)
      marked == [this EXCEPT
                   !.didChangeWhilePaused = this.isPaused \/ @,
                   !.prev = this.current,
                   !.current = next]
  IN  IF ~this.isPaused
        THEN [marked EXCEPT
                !.history = Append(splice(this.history, this.pointer + 1),
                                   given),
                !.pointer = this.pointer + 1]
        ELSE marked

\* Trashly.mutate seen on the heap: the mutator runs on a deep clone, which
\* becomes current
mutateTo(heap, target, mutator) ==
  Place(heap, Run(mutator, cloneDeep(Tree(heap, target))))

(***************************************************************************)
(* The callers' inputs.                                                    *)
(***************************************************************************)
Tags(n, f) == Arr(n, [k \in {IndexKey(i) : i \in 0..(n - 1)} |-> Scalar(f[IndexOf(k) + 1])])

\* the snapshots a container is constructed from
Initials ==
  { Obj(("age" :> Scalar(36)) @@ ("tags" :> Tags(0, <<>>))) }

\* the partial states handed to setState
Partials ==
  { "age" :> Scalar(37),
    "age" :> Scalar(36) }

\* the functions handed to mutate
Mutators ==
  { Mutator("assign", <<"tags", "0">>, Scalar(1)),
    Mutator("pop", <<"tags">>, Undefined) }

\* the states handed to replaceState
States ==
  { Obj(("age" :> Scalar(37)) @@ ("tags" :> Tags(0, <<>>))) }

\* the patches handed to patch
Patches ==
  { <<Difference("CHANGE", <<"age">>, Scalar(37), Scalar(36))>>,
    <<Difference("CHANGE", <<"age">>, Scalar(37), Scalar(36)),
      Difference("MOVE", <<"age">>, Scalar(36), Scalar(37))>> }

\* the snapshots with scalar keys only a container is constructed from
KeyInitials ==
  { Obj(("a" :> Scalar(1)) @@ ("b" :> Scalar(1)) @@ ("c" :> Scalar(1))) }

\* the partial states over the scalar keys handed to setState
KeyPartials ==
  {"a" :> Scalar(x) : x \in 1..2}
    \cup {"b" :> Scalar(y) : y \in 1..2}
    \cup {("a" :> Scalar(x)) @@ ("b" :> Scalar(y)) : x, y \in 1..2}

\* the functions assigning to a scalar key handed to mutate
KeyMutators ==
  {Mutator("assign", <<k>>, Scalar(x)) : k \in {"a", "b"}, x \in 1..2}

\* the snapshots a LiquorStore is constructed from
LiquorInitials == { Obj("v" :> Scalar(0)) }

\* the functions handed to LiquorStore.mutate: x => x.v = 1, 2, 3
LiquorMutators == {Mutator("assign", <<"v">>, Scalar(x)) : x \in 1..3}

\* the callbacks handed to subscribe
Callbacks == {"l1", "l2"}

\* the five-element array and what is left of it without [1] and [3]
FiveArray == Tags(5, <<10, 11, 12, 13, 14>>)

ThreeArray == Tags(3, <<10, 12, 14>>)

\* the snapshots handed to function applyPatch as target
Targets ==
  { Obj(("a" :> Obj(("b" :> Obj("v" :> Scalar(1)))
                    @@ ("d" :> Obj("v" :> Scalar(2)))))
        @@ ("c" :> Obj("b" :> Obj("v" :> Scalar(3))))),
    Obj("a" :> Obj("a" :> Obj("v" :> Scalar(1)))),
    Obj("a" :> FiveArray),
    FiveArray }

\* the differences the patches handed to function applyPatch are made of
Deltas ==
  { Difference("CHANGE", <<"a", "b", "v">>, Scalar(7), Scalar(1)),
    Difference("CHANGE", <<"c", "b", "v">>, Scalar(8), Scalar(3)),
    Difference("CHANGE", <<"a", "a", "v">>, Scalar(6), Scalar(1)),
    Difference("CREATE", <<"a", "d", "w">>, Scalar(9), Undefined),
    Difference("REMOVE", <<"1">>, Undefined, Scalar(11)),
    Difference("REMOVE", <<"3">>, Undefined, Scalar(13)),
    Difference("REMOVE", <<"a", "1">>, Undefined, Scalar(11)),
    Difference("REMOVE", <<"a", "3">>, Undefined, Scalar(13)) }

\* the snapshots a patch is computed to reach: scalars changed, a subtree
\* created, a key removed, arrays nested and at the root changed, shortened
\* and lengthened
Goals ==
  Targets \cup
  { Obj(("a" :> Obj(("b" :> Obj("v" :> Scalar(7)))
                    @@ ("d" :> Obj("v" :> Scalar(2)))))
        @@ ("c" :> Obj("b" :> Obj("v" :> Scalar(3))))),
    Obj("a" :> Obj(("a" :> Obj("v" :> Scalar(1)))
                   @@ ("b" :> Obj("w" :> Scalar(5))))),
    Obj("c" :> Obj("b" :> Obj("v" :> Scalar(3)))),
    Obj("a" :> Tags(5, <<10, 11, 12, 13, 15>>)),
    Obj("a" :> ThreeArray),
    ThreeArray,
    Tags(5, <<10, 11, 12, 13, 15>>),
    Tags(2, <<10, 11>>) }

\* the patches handed to function applyPatch
HeapPatches == UNION {[1..n -> Deltas] : n \in 0..MaxPatch}

\* the functions handed to mutate where sharing is observed
HeapMutators ==
  { Mutator("assign", <<"a", "b", "v">>, Scalar(7)),
    Mutator("noop", <<>>, Undefined) }

(***************************************************************************)
(* The state machine: one container and its callers.                       *)
(***************************************************************************)
VARIABLES
  prev, current, pointer, history, isPaused, didChangeWhilePaused,
  initial,   \* the snapshot the constructor was given
  lastOp,    \* the public operation called last
  calls,     \* how many public operations were called
  pauseLog,  \* what the callers did since the container was paused
  seen,      \* what the listeners were called with during the last call
  input,     \* the literal the target snapshot was built from
  heap,      \* the object graph
  target,    \* the snapshot handed to the function called
  applied,   \* the patch applied, or recorded, by the call
  result,    \* the snapshot the call produced
  threw,     \* the call threw instead of returning
  listeners,    \* the callbacks in this.listeners
  unsubscribed, \* the callbacks whose unsubscribe function ran last
  invoked,      \* the callbacks the last call ran
  did,       \* the function called on the target
  goal       \* the snapshot the patch applied was computed to reach

\* the container and what is recorded of its calls
storeVars ==
  <<prev, current, pointer, history, isPaused, didChangeWhilePaused,
    initial, lastOp, calls, pauseLog, seen>>

\* the object graph and what is recorded of the call made on it
heapVars == <<input, heap, target, applied, result, threw, did, goal>>

\* the subscriptions
listenerVars == <<listeners, unsubscribed, invoked>>

vars == <<storeVars, heapVars, listenerVars>>

\* the container's fields as a store record
Self ==
  [prev |-> prev, current |-> current, pointer |-> pointer,
   history |-> history, isPaused |-> isPaused,
   didChangeWhilePaused |-> didChangeWhilePaused]

\* the container's fields become those of the store record
Becomes(this) ==
  /\ prev' = this.prev
  /\ current' = this.current
  /\ pointer' = this.pointer
  /\ history' = this.history
  /\ isPaused' = this.isPaused
  /\ didChangeWhilePaused' = this.didChangeWhilePaused

\* no pause is being logged
NotPaused(snapshot) ==
  [open |-> FALSE, start |-> snapshot, pointer |-> -1,
   onlySets |-> FALSE, sets |-> 0, pauses |-> 0, others |-> FALSE]

\* the log of a call:
\*   start, pointer : current and pointer when pause() began the pause
\*   onlySets       : every call since was a setState or a mutate
\*   sets           : how many of them there were
\*   pauses         : how many calls of pause() were made in the pause
\*   others         : a call since was none of setState, mutate and pause
Logged(op) ==
  IF ~isPaused'
    THEN NotPaused(initial)
  ELSE IF ~isPaused
    THEN [open |-> TRUE, start |-> current, pointer |-> pointer,
          onlySets |-> TRUE, sets |-> 0, pauses |-> 0, others |-> FALSE]
  ELSE IF op \in {"setState", "mutate"}
    THEN [pauseLog EXCEPT !.sets = @ + 1]
  ELSE IF op = "pause"
    THEN [pauseLog EXCEPT !.onlySets = FALSE, !.pauses = @ + 1]
  ELSE [pauseLog EXCEPT !.onlySets = FALSE, !.others = TRUE]

Init ==
  /\ initial \in Initials
  /\ prev = Trashly(initial).prev
  /\ current = Trashly(initial).current
  /\ pointer = Trashly(initial).pointer
  /\ history = Trashly(initial).history
  /\ isPaused = Trashly(initial).isPaused
  /\ didChangeWhilePaused = Trashly(initial).didChangeWhilePaused
  /\ lastOp = "new"
  /\ calls = 0
  /\ pauseLog = NotPaused(initial)
  /\ seen = <<>>
  /\ input = Undefined
  /\ heap = <<>>
  /\ target = HUndefined
  /\ applied = <<>>
  /\ result = HUndefined
  /\ threw = FALSE
  /\ did = "none"
  /\ goal = Undefined
  /\ listeners = {}
  /\ unsubscribed = {}
  /\ invoked = {}

\* one more public call, of the operation op
Called(op) ==
  /\ calls < MaxCalls
  /\ calls' = calls + 1
  /\ lastOp' = op
  /\ pauseLog' = Logged(op)
  /\ UNCHANGED initial
  /\ UNCHANGED heapVars
  /\ invoked' = forEach(listeners, seen')
  /\ UNCHANGED <<listeners, unsubscribed>>

SetState ==
  \E state \in Partials :
    /\ Becomes(setState(Self, state))
    /\ seen' = setStateSeen(Self, state)
    /\ Called("setState")

Mutate ==
  \E mutator \in Mutators :
    /\ Runs(mutator, cloneDeep(current))
    /\ Becomes(mutate(Self, mutator))
    /\ seen' = mutateSeen(Self, mutator)
    /\ Called("mutate")

ReplaceState ==
  \E state \in States :
    /\ Becomes(replaceState(Self, state))
    /\ seen' = replaceStateSeen(Self, state)
    /\ Called("replaceState")

Patch ==
  \E items \in Patches :
    /\ Becomes(patch(Self, items))
    /\ seen' = patchSeen(Self, items)
    /\ Called("patch")

Pause ==
  /\ Becomes(pause(Self))
  /\ seen' = pauseSeen(Self)
  /\ Called("pause")

Resume ==
  /\ Becomes(resume(Self))
  /\ seen' = resumeSeen(Self)
  /\ Called("resume")

Undo ==
  /\ Becomes(undo(Self))
  /\ seen' = undoSeen(Self)
  /\ Called("undo")

Redo ==
  /\ Becomes(redo(Self))
  /\ seen' = redoSeen(Self)
  /\ Called("redo")

Next ==
  \/ SetState
  \/ Mutate
  \/ ReplaceState
  \/ Patch
  \/ Pause
  \/ Resume
  \/ Undo
  \/ Redo

Spec == Init /\ [][Next]_vars

(***************************************************************************)
(* The state machine of the object graph: a target snapshot is built, then *)
(* function applyPatch or Trashly.mutate is called on it once.             *)
(***************************************************************************)
\* the heap as it was when the target was published
Before == Place(<<>>, input).heap

InitSharing ==
  /\ input \in Targets
  /\ heap = Place(<<>>, input).heap
  /\ target = Place(<<>>, input).value
  /\ applied = <<>>
  /\ result = HUndefined
  /\ threw = FALSE
  /\ did = "new"
  /\ goal = Undefined
  /\ initial \in Initials
  /\ prev = initial
  /\ current = initial
  /\ pointer = -1
  /\ history = <<>>
  /\ isPaused = FALSE
  /\ didChangeWhilePaused = FALSE
  /\ lastOp = "new"
  /\ calls = 0
  /\ pauseLog = NotPaused(initial)
  /\ seen = <<>>
  /\ listeners = {}
  /\ unsubscribed = {}
  /\ invoked = {}

\* next = applyPatch(target, patch)
CallApplyPatch ==
  /\ did = "new"
  /\ \E given \in HeapPatches :
       LET done == applyPatchTo(heap, target, given)
       IN  /\ heap' = done.heap
           /\ result' = done.value
           /\ threw' = done.threw
           /\ applied' = given
  /\ did' = "applyPatch"
  /\ UNCHANGED <<input, target, goal>>
  /\ UNCHANGED storeVars
  /\ UNCHANGED listenerVars

\* mutate(mutator) on a container whose current is the target
CallMutate ==
  /\ did = "new"
  /\ \E mutator \in HeapMutators :
       /\ Runs(mutator, cloneDeep(Tree(heap, target)))
       /\ LET done == mutateTo(heap, target, mutator)
          IN  /\ heap' = done.heap
              /\ result' = done.value
              /\ applied' = diff(Tree(heap, target), Tree(done.heap, done.value))
  /\ threw' = FALSE
  /\ did' = "mutate"
  /\ UNCHANGED <<input, target, goal>>
  /\ UNCHANGED storeVars
  /\ UNCHANGED listenerVars

RECURSIVE SameKinds(_, _)
\* the two snapshots are of one kind (object, array, scalar), and so are
\* their values under every key both have
SameKinds(before, after) ==
  /\ before.type = after.type
  /\ \A k \in DOMAIN before.props \cap DOMAIN after.props :
       SameKinds(before.props[k], after.props[k])

\* applyPatch(target, diff(target, wanted)) for a snapshot wanted in which
\* no node of the target changes its kind
CallApplyDiff ==
  /\ did = "new"
  /\ \E wanted \in Goals :
       /\ SameKinds(input, wanted)
       /\ LET done == applyPatchTo(heap, target, diff(input, wanted))
          IN  /\ heap' = done.heap
              /\ result' = done.value
              /\ threw' = done.threw
              /\ applied' = diff(input, wanted)
       /\ goal' = wanted
  /\ did' = "applyDiff"
  /\ UNCHANGED <<input, target>>
  /\ UNCHANGED storeVars
  /\ UNCHANGED listenerVars

NextSharing ==
  \/ CallApplyPatch
  \/ CallMutate
  \/ CallApplyDiff

SpecSharing == InitSharing /\ [][NextSharing]_vars

(***************************************************************************)
(* The state machine of a container whose snapshot has scalar keys only.   *)
(***************************************************************************)
InitKeys ==
  /\ initial \in KeyInitials
  /\ prev = Trashly(initial).prev
  /\ current = Trashly(initial).current
  /\ pointer = Trashly(initial).pointer
  /\ history = Trashly(initial).history
  /\ isPaused = Trashly(initial).isPaused
  /\ didChangeWhilePaused = Trashly(initial).didChangeWhilePaused
  /\ lastOp = "new"
  /\ calls = 0
  /\ pauseLog = NotPaused(initial)
  /\ seen = <<>>
  /\ input = Undefined
  /\ heap = <<>>
  /\ target = HUndefined
  /\ applied = <<>>
  /\ result = HUndefined
  /\ threw = FALSE
  /\ did = "none"
  /\ goal = Undefined
  /\ listeners = {}
  /\ unsubscribed = {}
  /\ invoked = {}

SetKeys ==
  \E state \in KeyPartials :
    /\ calls < MaxSets
    /\ Becomes(setState(Self, state))
    /\ seen' = setStateSeen(Self, state)
    /\ Called("setState")

MutateKeys ==
  \E mutator \in KeyMutators :
    /\ calls < MaxSets
    /\ Becomes(mutate(Self, mutator))
    /\ seen' = mutateSeen(Self, mutator)
    /\ Called("mutate")

PauseKeys == calls < MaxSets /\ Pause

ResumeKeys == calls < MaxSets /\ Resume

NextKeys ==
  \/ SetKeys
  \/ MutateKeys
  \/ PauseKeys
  \/ ResumeKeys

SpecKeys == InitKeys /\ [][NextKeys]_vars

(***************************************************************************)
(* The state machine of a container and its subscribers.                   *)
(***************************************************************************)
\* a call that is not a method changing the container's fields
Subscribing(op) ==
  /\ calls < MaxSets
  /\ calls' = calls + 1
  /\ lastOp' = op
  /\ seen' = <<>>
  /\ invoked' = forEach(listeners', seen')
  /\ UNCHANGED <<prev, current, pointer, history, isPaused,
                 didChangeWhilePaused, initial, pauseLog>>
  /\ UNCHANGED heapVars

\* subscribe(listener): the unsubscribe function it returns is kept
Subscribe ==
  \E listener \in Callbacks :
    /\ listeners' = subscribe(listeners, listener)
    /\ unsubscribed' = unsubscribed \ {listener}
    /\ Subscribing("subscribe")

\* a call of an unsubscribe function that subscribe returned, the callback
\* being subscribed or not
Unsubscribe ==
  \E listener \in Callbacks :
    /\ listener \in listeners \cup unsubscribed
    /\ listeners' = unsubscribe(listeners, listener)
    /\ unsubscribed' = unsubscribed \cup {listener}
    /\ Subscribing("unsubscribe")

SetStateSubscribed == calls < MaxSets /\ SetState

PauseSubscribed == calls < MaxSets /\ Pause

UndoSubscribed == calls < MaxSets /\ Undo

NextSubscribed ==
  \/ Subscribe
  \/ Unsubscribe
  \/ SetStateSubscribed
  \/ PauseSubscribed
  \/ UndoSubscribed

SpecSubscribed == Init /\ [][NextSubscribed]_vars

(***************************************************************************)
(* The state machine of the container that diffs and applies: LiquorStore. *)
(* Its pause, resume and undo have the statements of Trashly's.            *)
(***************************************************************************)
InitLiquor ==
  /\ initial \in LiquorInitials
  /\ prev = initial
  /\ current = initial
  /\ pointer = -1
  /\ history = <<>>
  /\ isPaused = FALSE
  /\ didChangeWhilePaused = FALSE
  /\ lastOp = "new"
  /\ calls = 0
  /\ pauseLog = NotPaused(initial)
  /\ seen = <<>>
  /\ input = Undefined
  /\ heap = <<>>
  /\ target = HUndefined
  /\ applied = <<>>
  /\ result = HUndefined
  /\ threw = FALSE
  /\ did = "none"
  /\ goal = Undefined
  /\ listeners = {}
  /\ unsubscribed = {}
  /\ invoked = {}

LiquorMutate ==
  \E mutator \in LiquorMutators :
    /\ Becomes(LiquorStoreMutate(Self, mutator))
    /\ seen' = notifySubscribers(LiquorStoreMutate(Self, mutator))
    /\ Called("mutate")

\* pause, resume and undo are the calls of Trashly's, statement by statement
NextLiquor ==
  \/ LiquorMutate
  \/ Pause
  \/ Resume
  \/ Undo

SpecLiquor == InitLiquor /\ [][NextLiquor]_vars

(***************************************************************************)
(* Operators the properties are stated with.                               *)
(***************************************************************************)
RECURSIVE Replay(_, _, _)
\* snapshot with history[0..index] applied forward, in order
Replay(snapshot, entries, index) ==
  IF index < 0 THEN snapshot
  ELSE applyItems(cloneDeep(Replay(snapshot, entries, index - 1)),
                  at(entries, index), 1)

\* the call made last recorded or marked a change of the state
Changing == {"setState", "mutate", "replaceState"}

\* an operation left what the history ledger shows as it was
SameLedger(before, after) ==
  /\ after.current = before.current
  /\ after.history = before.history
  /\ after.pointer = before.pointer

(***************************************************************************)
(* C1 - the invariant of the ledger as the specification states it.        *)
(***************************************************************************)
\* C1: whenever no in-pause change is pending, current is structurally equal
\* to the initial snapshot with history[0..pointer] applied forward in order.
C1_CurrentIsHistoryApplied ==
  ~didChangeWhilePaused => current = Replay(initial, history, pointer)

(***************************************************************************)
(* C2 - the pointer stays inside the history.                              *)
(***************************************************************************)
\* C2: in every reachable state -1 <= pointer <= history.length - 1.
C2_PointerInHistory ==
  /\ pointer \in Int
  /\ -1 <= pointer
  /\ pointer <= Len(history) - 1

\* every entry was undone: the pointer is back at -1 under a history of two
C2_Witness ==
  lastOp = "undo" /\ pointer = -1 /\ Len(history) >= 2

(***************************************************************************)
(* C3 - undo right after an unpaused mutate or setState.                   *)
(***************************************************************************)
\* C3: when an unpaused mutate or setState turned current from S into S', an
\* undo() issued immediately afterwards makes current equal to S exactly.
C3_UndoRestoresSnapshot ==
  [][(lastOp' \in {"mutate", "setState"} /\ ~isPaused)
       => undo(Self').current = current]_vars

(***************************************************************************)
(* C4 - undo and redo as inverses.                                         *)
(***************************************************************************)
\* C4: in any unpaused state with canUndo, undo() then redo() leaves current
\* equal to its value before the undo and pointer unchanged; in any unpaused
\* state with canRedo, redo() then undo() likewise restores both.
C4_UndoRedoInverse ==
  ~isPaused =>
    /\ canUndo(Self) =>
         /\ redo(undo(Self)).current = current
         /\ redo(undo(Self)).pointer = pointer
    /\ canRedo(Self) =>
         /\ undo(redo(Self)).current = current
         /\ undo(redo(Self)).pointer = pointer

(***************************************************************************)
(* C5 - a new edit after undo truncates the redo future.                   *)
(***************************************************************************)
\* C5: when a setState, mutate or replaceState is committed while
\* pointer < history.length - 1, the entries after pointer are discarded and
\* the new patch appended, so that afterwards pointer = history.length - 1,
\* redo() is a no-op, undo() gives the pre-edit state and redo() after that
\* undo gives the new edit again.
C5_EditAfterUndoTruncates ==
  [][(lastOp' \in Changing /\ ~isPaused /\ pointer < Len(history) - 1)
       => /\ Len(history') = pointer + 2
          /\ SubSeq(history', 1, pointer + 1) = SubSeq(history, 1, pointer + 1)
          /\ pointer' = Len(history') - 1
          /\ SameLedger(Self', redo(Self'))
          /\ undo(Self').current = current
          /\ redo(undo(Self')).current = current']_vars

(***************************************************************************)
(* C6 - undo with nothing to undo.                                         *)
(***************************************************************************)
\* C6: whenever canUndo is false, undo() leaves current, history and pointer
\* unchanged (so that, once everything is undone, further undos change
\* nothing).
C6_UndoNoopWithoutCanUndo ==
  ~canUndo(Self) =>
    /\ SameLedger(Self, undo(Self))
    /\ SameLedger(Self, undo(undo(Self)))

Published(op) ==
  CASE op = "setState" -> {Spread(current, state) : state \in Partials}
    [] op = "mutate" ->
         {Run(mutator, cloneDeep(current)) :
            mutator \in {m \in Mutators : Runs(m, cloneDeep(current))}}
    [] op = "replaceState" -> States

\* C8: while isPaused, every setState, mutate and replaceState updates
\* current to the new state and leaves history and pointer unchanged.
C8_PausedChangeLeavesHistory ==
  [][(isPaused /\ lastOp' \in Changing)
       => /\ current' \in Published(lastOp')
          /\ history' = history
          /\ pointer' = pointer]_vars

\* a change was made while paused, over a history that has an entry
C8_Witness ==
  /\ lastOp \in Changing
  /\ isPaused
  /\ didChangeWhilePaused
  /\ current # pauseLog.start
  /\ Len(history) >= 1

(***************************************************************************)
(* C9 - the changes of a pause become one entry.                           *)
(***************************************************************************)
\* C9: for pause(), then n >= 1 setState or mutate calls, then resume(),
\* exactly one patch is appended, it is the diff between the snapshot that
\* was current when the pause began and the snapshot at resume time, and a
\* single undo() after the resume restores the pre-pause snapshot.
C9_PauseCoalesces ==
  [][(lastOp' = "resume" /\ pauseLog.open /\ pauseLog.onlySets
        /\ pauseLog.sets >= 1)
       => /\ history' = Append(SubSeq(history, 1, pointer + 1),
                               diff(pauseLog.start, current))
          /\ pointer' = pointer + 1
          /\ undo(Self').current = pauseLog.start]_vars

(***************************************************************************)
(* C10 - undo while paused with a pending change.                          *)
(***************************************************************************)
\* C10: when undo() is called while isPaused and didChangeWhilePaused, the
\* pending change is folded into history as exactly one entry and undone:
\* afterwards current is the snapshot from before the first in-pause change
\* and pointer has its value from before the pause.
C10_UndoWhilePausedDirty ==
  [][(lastOp' = "undo" /\ isPaused /\ didChangeWhilePaused)
       => /\ Len(history') = pointer + 2
          /\ SubSeq(history', 1, pointer + 1) = SubSeq(history, 1, pointer + 1)
          /\ current' = pauseLog.start
          /\ pointer' = pauseLog.pointer]_vars

(***************************************************************************)
(* C11 - undo and redo leave the pause.                                    *)
(***************************************************************************)
\* C11: after any call to undo() or redo(), made paused with or without a
\* pending change or not paused at all, isPaused is false.
C11_UndoRedoResume ==
  lastOp \in {"undo", "redo"} => ~isPaused

(***************************************************************************)
(* C12 - canUndo with a pending in-pause change.                           *)
(***************************************************************************)
\* C12: canUndo is true in every state where isPaused and
\* didChangeWhilePaused are both true, pointer = -1 included, and otherwise
\* exactly when pointer >= 0.
C12_CanUndoWhenPending ==
  canUndo(Self) <=> ((isPaused /\ didChangeWhilePaused) \/ pointer >= 0)

(***************************************************************************)
(* C13 - every public operation calls the listeners.                       *)
(***************************************************************************)
\* the operations that are to call the listeners whatever they did
Notifying ==
  {"mutate", "setState", "replaceState", "pause", "resume", "undo", "redo"}

\* C13: every call of mutate, setState, replaceState, pause, resume, undo or
\* redo calls every subscribed listener at least once before it returns, an
\* undo or redo that has nothing to do and a mutate with an empty patch
\* included.
C13_EveryCallNotifies ==
  lastOp \in Notifying => Len(seen) >= 1

(***************************************************************************)
(* C14 - no silent change.                                                 *)
(***************************************************************************)
\* what getState, getIsPaused, getCanUndo and getCanRedo return
Observable(this) ==
  <<this.current, this.isPaused, canUndo(this), canRedo(this)>>

\* C14: whenever an operation changes a value observable through getState,
\* getIsPaused, getCanUndo or getCanRedo, the listeners are called before
\* the operation returns.
C14_NoSilentChange ==
  [][Observable(Self') # Observable(Self) => Len(seen') >= 1]_vars

(***************************************************************************)
(* C15 - the listeners are called after publication.                       *)
(***************************************************************************)
\* C15: at every call of a listener, current, prev, history, pointer,
\* isPaused and didChangeWhilePaused already hold the values they have when
\* the operation returns: nothing is written after the listeners ran.
C15_NotifiedAfterPublication ==
  \A i \in 1..Len(seen) : seen[i] = Self

\* resume() committed the mutate of a pause as the only entry, left the
\* pause and called the listeners
C15_Witness ==
  /\ lastOp = "resume"
  /\ Len(seen) = 1
  /\ ~seen[1].isPaused
  /\ seen[1].pointer = 0
  /\ Len(seen[1].history) = 1
  /\ seen[1].current = Run(Mutator("assign", <<"tags", "0">>, Scalar(1)), initial)
  /\ seen[1].prev = seen[1].current

(***************************************************************************)
(* C16 - prev is the snapshot before the last change.                      *)
(***************************************************************************)
\* C16 as stated: after every setState, mutate, replaceState, undo or redo that
\* changes current, paused or not, prev equals the snapshot that was current
\* immediately before that operation.
C16_PrevIsSnapshotBefore ==
  [][(lastOp' \in {"setState", "mutate", "replaceState", "undo", "redo"}
        /\ current' # current)
       => prev' = current]_vars

\* C16 as amended: after every setState, mutate, replaceState, undo or redo
\* that changes current, prev equals the snapshot that was current
\* immediately before that operation, except after a setState or mutate
\* made while paused with a change already pending: that call leaves prev as
\* it was, the snapshot resume() will diff against.
C16_PrevUnlessPending ==
  [][(lastOp' \in {"setState", "mutate", "replaceState", "undo", "redo"}
        /\ current' # current)
       => IF isPaused /\ didChangeWhilePaused
               /\ lastOp' \in {"setState", "mutate"}
            THEN prev' = prev
            ELSE prev' = current]_vars

\* a second change was made in a pause: prev is still the snapshot the pause
\* began with, not the one the second change replaced
C16_Witness ==
  /\ lastOp \in {"setState", "mutate"}
  /\ isPaused
  /\ didChangeWhilePaused
  /\ pauseLog.onlySets
  /\ pauseLog.sets = 2
  /\ prev = pauseLog.start
  /\ current.props["age"] # prev.props["age"]
  /\ current.props["tags"] # prev.props["tags"]

(***************************************************************************)
(* Operators the properties of the object graph are stated with.           *)
(***************************************************************************)
RECURSIVE PathsOf(_)
\* the paths of the nodes of a tree, the root's empty path included
PathsOf(node) ==
  {<<>>} \cup UNION {{<<k>> \o path : path \in PathsOf(node.props[k])} :
                      k \in DOMAIN node.props}

\* the path p leads to the node at q or to one of its ancestors
Prefix(p, q) == Len(p) <= Len(q) /\ SubSeq(q, 1, Len(p)) = p

\* the paths of the nodes a patch writes under: the root and every node on
\* the way to a difference
Ancestors(given) ==
  {<<>>} \cup UNION {{SubSeq(given[i].path, 1, n) :
                        n \in 0..(Len(given[i].path) - 1)} :
                      i \in DOMAIN given}

\* a path below the root that is on the way to no difference of the patch,
\* nor under one
OffPatch(path, given) ==
  /\ path # <<>>
  /\ \A i \in DOMAIN given :
       ~Prefix(path, given[i].path) /\ ~Prefix(given[i].path, path)

(***************************************************************************)
(* C17 - mutate shares what it did not touch.                              *)
(***************************************************************************)
\* C17: after Trashly.mutate changed only the leaf a.b.v, the node at the
\* sibling path a.d of the new current is reference-identical to the node
\* at a.d of the old current.
C17_MutateSharesSibling ==
  (/\ did = "mutate"
   /\ applied = <<Difference("CHANGE", <<"a", "b", "v">>,
                             Scalar(7), Scalar(1))>>
   /\ At(Before, target, <<"a", "d">>).tag = "ref")
    => At(heap, result, <<"a", "d">>) = At(Before, target, <<"a", "d">>)

(***************************************************************************)
(* C18 - applyPatch leaves its target as it was.                           *)
(***************************************************************************)
\* C18: for every target and patch, paths with the same key at different
\* depths or under different parents included, applyPatch(target, patch)
\* leaves target and every node reachable from it unchanged.
C18_TargetUnchanged ==
  did = "applyPatch" =>
    /\ \A address \in DOMAIN Before : heap[address] = Before[address]
    /\ Tree(heap, target) = input

(***************************************************************************)
(* C19 - applyPatch shares what the patch does not touch.                  *)
(***************************************************************************)
\* C19: in the result of applyPatch every subtree that is not on the path
\* of a difference is reference-identical to the same subtree of target,
\* and every ancestor on the path of a difference is a fresh copy, made
\* exactly once even when several differences share it.
C19_SharesUntouched ==
  (did = "applyPatch" /\ ~threw) =>
    /\ \A path \in PathsOf(input) :
         OffPatch(path, applied)
           => At(heap, result, path) = At(Before, target, path)
    /\ \A path \in Ancestors(applied) :
         /\ At(heap, result, path).tag = "ref"
         /\ At(heap, result, path).v \notin DOMAIN Before
    /\ Len(heap) = Len(Before) + Cardinality(Ancestors(applied))

(***************************************************************************)
(* C20 - removing two elements of an array in one patch.                   *)
(***************************************************************************)
\* the patch removing the elements [1] and [3] of the array at a path
RemoveTwo(path) ==
  <<Difference("REMOVE", Append(path, "1"), Undefined, Scalar(11)),
    Difference("REMOVE", Append(path, "3"), Undefined, Scalar(13))>>

\* C20: one patch removing two non-adjacent elements of a five-element
\* array gives, without an exception, a three-element array of the
\* survivors in their order, with no hole and no tombstone, and undoing the
\* patch gives the five-element array back.
C20_RemoveTwoOfFive ==
  \A path \in {<<>>, <<"a">>} :
    (/\ did = "applyPatch"
     /\ GetIn(input, path) = FiveArray
     /\ applied = RemoveTwo(path))
      => /\ ~threw
         /\ GetIn(Tree(heap, result), path) = ThreeArray
         /\ undoItems(cloneDeep(Tree(heap, result)), applied, 1) = input

(***************************************************************************)
(* C25 - resume without a pending change.                                  *)
(***************************************************************************)
\* C25: resume() with didChangeWhilePaused false leaves current, prev,
\* history and pointer unchanged and sets isPaused to false; resume() always
\* leaves isPaused false and didChangeWhilePaused false.
C25_ResumeClean ==
  [][lastOp' = "resume"
       => /\ ~isPaused'
          /\ ~didChangeWhilePaused'
          /\ ~didChangeWhilePaused
               => /\ current' = current
                  /\ prev' = prev
                  /\ history' = history
                  /\ pointer' = pointer]_vars

\* resume() ran with nothing pending over one entry: prev is still the
\* snapshot before that entry, which a commit would have overwritten
C25_Witness ==
  /\ lastOp = "resume"
  /\ ~isPaused
  /\ ~didChangeWhilePaused
  /\ Len(history) = 1
  /\ pointer = 0
  /\ prev = initial
  /\ current # initial

(***************************************************************************)
(* C26 - pause changes isPaused only.                                      *)
(***************************************************************************)
\* C26: pause() sets isPaused to true and changes nothing else: current,
\* prev, history, pointer and didChangeWhilePaused are after the call what
\* they were before it, from any reachable state.
C26_PauseFrame ==
  [][lastOp' = "pause"
       => /\ isPaused'
          /\ current' = current
          /\ prev' = prev
          /\ history' = history
          /\ pointer' = pointer
          /\ didChangeWhilePaused' = didChangeWhilePaused]_vars

\* pause() was called after an undo, with an entry left to redo and prev
\* differing from current
C26_Witness ==
  /\ lastOp = "pause"
  /\ isPaused
  /\ ~didChangeWhilePaused
  /\ pointer = -1
  /\ Len(history) = 1
  /\ prev # current

(***************************************************************************)
(* C27 - the freshly constructed container.                                *)
(***************************************************************************)
\* C27: a freshly constructed container has current and prev equal to the
\* initial snapshot, pointer = -1, an empty history, isPaused and
\* didChangeWhilePaused false, and so canUndo and canRedo both false.
C27_FreshContainer ==
  calls = 0
    => /\ current = initial
       /\ prev = initial
       /\ pointer = -1
       /\ history = <<>>
       /\ ~isPaused
       /\ ~didChangeWhilePaused
       /\ ~canUndo(Self)
       /\ ~canRedo(Self)

\* the container right after its construction
C27_Witness ==
  /\ calls = 0
  /\ lastOp = "new"
  /\ initial \in Initials
  /\ Self = Trashly(initial)

(***************************************************************************)
(* C30 - what resume appends after a pause that changed nothing.           *)
(***************************************************************************)
\* C30: resume() appends a history entry only if a change
\* actually occurred while paused: when current at resume time is
\* structurally equal to the snapshot at the start of the pause, history and
\* pointer are unchanged by resume().
C30_ResumeAppendsOnlyIfChanged ==
  [][(lastOp' = "resume" /\ pauseLog.open /\ current = pauseLog.start)
       => /\ history' = history
          /\ pointer' = pointer]_vars

(***************************************************************************)
(* C23 - the patch of an unpaused change of scalar keys.                   *)
(***************************************************************************)
\* the top-level keys whose values differ in before and after
ChangedKeys(before, after) ==
  SelectSeq(KeyOrder, LAMBDA k : /\ Has(before, k)
                                 /\ before.props[k] # after.props[k])

\* before and after have the same keys and differ in scalar values only
ScalarChange(before, after) ==
  /\ DOMAIN before.props = DOMAIN after.props
  /\ ChangedKeys(before, after) # <<>>
  /\ \A k \in DOMAIN before.props :
       before.props[k] # after.props[k]
         => /\ before.props[k].type = "scalar"
            /\ after.props[k].type = "scalar"

\* one CHANGE per changed key, in key enumeration order
ChangesOf(before, after) ==
  [i \in 1..Len(ChangedKeys(before, after)) |->
     Difference("CHANGE", <<ChangedKeys(before, after)[i]>>,
                after.props[ChangedKeys(before, after)[i]],
                before.props[ChangedKeys(before, after)[i]])]

\* C23: an unpaused setState or mutate that changes the values of some
\* top-level scalar keys appends exactly one patch holding exactly one CHANGE
\* delta per changed key, with path [key], oldValue the previous value and
\* value the new one, in key enumeration order, and no delta for a key whose
\* value did not change.
C23_OneChangePerKey ==
  [][(/\ lastOp' \in {"setState", "mutate"}
      /\ ~isPaused
      /\ ScalarChange(current, current'))
       => /\ history' = Append(SubSeq(history, 1, pointer + 1),
                               ChangesOf(current, current'))
          /\ pointer' = pointer + 1]_vars

\* setState changed a and b and left c: the second patch holds the CHANGE
\* of a, then that of b
C23_Witness ==
  /\ lastOp = "setState"
  /\ ~isPaused
  /\ pointer = 1
  /\ Len(history) = 2
  /\ Len(history[1]) = 1
  /\ history[2] = <<Difference("CHANGE", <<"a">>, Scalar(1), Scalar(2)),
                    Difference("CHANGE", <<"b">>, Scalar(2), Scalar(1))>>
  /\ current.props["c"] = prev.props["c"]

(***************************************************************************)
(* C24 - replaceState against mutate.                                      *)
(***************************************************************************)
\* C24: replaceState has the same commit and pause handling as mutate: from
\* any reachable state, replaceState(X) and a mutate whose mutator turns
\* current into a tree equal to X leave the container with the same pointer,
\* the same history length, the same isPaused and didChangeWhilePaused and
\* the same prev.
C24_ReplaceStateAsMutate ==
  \A state \in States :
    LET mutator == Mutator("assign", <<"age">>, state.props["age"])
    IN  Run(mutator, cloneDeep(current)) = state
          => /\ replaceState(Self, state).pointer = mutate(Self, mutator).pointer
             /\ Len(replaceState(Self, state).history)
                  = Len(mutate(Self, mutator).history)
             /\ replaceState(Self, state).isPaused
                  = mutate(Self, mutator).isPaused
             /\ replaceState(Self, state).didChangeWhilePaused
                  = mutate(Self, mutator).didChangeWhilePaused
             /\ replaceState(Self, state).prev = mutate(Self, mutator).prev

(***************************************************************************)
(* C22 - a patch holding a delta of unknown type.                          *)
(***************************************************************************)
\* C22: applying through patch() a patch that holds a delta whose type is
\* not CREATE, CHANGE or REMOVE raises an error and leaves current, prev,
\* history, pointer, isPaused and didChangeWhilePaused exactly as they were
\* before the call, also when valid deltas precede the malformed one.
C22_MalformedPatchAtomic ==
  \A items \in Patches :
    (\E i \in 1..Len(items) : items[i].type \notin {"CREATE", "CHANGE", "REMOVE"})
      => /\ Throws(items)
         /\ patch(Self, items) = Self

(***************************************************************************)
(* C28 - subscribe and unsubscribe.                                        *)
(***************************************************************************)
\* C28: subscribe(callback) returns an unsubscribe function; after it is
\* called, that callback is not invoked by any later operation, while the
\* callbacks still subscribed go on being invoked: an operation that
\* notifies runs exactly the callbacks subscribed and not unsubscribed.
C28_UnsubscribedNotInvoked ==
  /\ invoked \cap unsubscribed = {}
  /\ listeners \cap unsubscribed = {}
  /\ seen # <<>> => invoked = listeners

\* l1 and l2 subscribed, l1 unsubscribed, and the next setState ran l2 only
C28_Witness ==
  /\ lastOp = "setState"
  /\ unsubscribed = {"l1"}
  /\ listeners = {"l2"}
  /\ invoked = {"l2"}

(***************************************************************************)
(* C29 - pause coalescing in the container that diffs and applies.         *)
(***************************************************************************)
\* C29: in the diff-and-apply container (LiquorStore.mutate), pause(), then
\* mutate calls assigning v, then resume() appends exactly one patch whose
\* inverse restores the pre-pause value of v: a single undo() after the
\* resume restores v to its pre-pause value, not to the value before the
\* last mutate.
C29_LiquorPauseCoalesces ==
  [][(lastOp' = "resume" /\ pauseLog.open /\ pauseLog.onlySets
        /\ pauseLog.sets >= 1)
       => /\ Len(history') = pointer + 2
          /\ pointer' = pointer + 1
          /\ undo(Self').current.props["v"] = pauseLog.start.props["v"]]_vars

(***************************************************************************)
(* C21 - applying the diff of two snapshots.                               *)
(***************************************************************************)
\* C21: for every pair of bounded trees S and T (nested objects, arrays at
\* the root or nested, scalars), applyPatch(S, diff(S, T)) returns a tree
\* structurally equal to T.
C21_ApplyOfDiff ==
  did = "applyDiff" => /\ ~threw
                       /\ Tree(heap, result) = goal

(***************************************************************************)
(* C31 - the commit of a pause after undos.                                *)
(***************************************************************************)
\* C31: when resume() commits the pending change of a pause of setState and
\* mutate calls while pointer < history.length - 1, every entry after
\* pointer is discarded before the coalesced patch is appended; the undo()
\* that follows reverts exactly that change, giving the snapshot the pause
\* began with, and the entries undone earlier are out of the reach of redo().
C31_CoalescedCommitTruncates ==
  [][(/\ lastOp' = "resume"
      /\ isPaused
      /\ didChangeWhilePaused
      /\ pauseLog.open
      /\ pauseLog.onlySets
      /\ pointer < Len(history) - 1)
       => /\ history' = Append(SubSeq(history, 1, pointer + 1),
                               diff(pauseLog.start, current))
          /\ pointer' = pointer + 1
          /\ ~canRedo(Self')
          /\ redo(Self') = Self'
          /\ undo(Self').current = pauseLog.start
          /\ Len(undo(Self').history) = pointer + 2]_vars

(***************************************************************************)
(* C32 - the order in which undo inverts the deltas.                       *)
(***************************************************************************)
\* a tree with the given deltas inverted, one after the other: a CREATE is
\* removed, a CHANGE or REMOVE gets its oldValue back
Inverted(tree, deltas) == undoItems(tree, deltas, 1)

\* the last count deltas of a patch, the last one first
LastFirst(items, count) == [i \in 1..count |-> items[Len(items) + 1 - i]]

\* C32: undo() applies the deltas of history[pointer] in inverse form in the
\* exact reverse of their recorded order: after its k-th step the working
\* copy has the last k recorded deltas inverted, the last one first.
C32_UndoReversesOrder ==
  LET resumed == undoResume(Self)
      items == at(resumed.history, resumed.pointer)
      next == cloneDeep(resumed.current)
  IN  canUndo(resumed)
        => \A k \in 1..Len(items) :
             undoSteps(next, items, 1)[k] = Inverted(next, LastFirst(items, k))

(***************************************************************************)
(* C33 - what an unpaused replaceState records.                            *)
(***************************************************************************)
\* C33: an unpaused replaceState(newSnapshot), newSnapshot being another
\* reference than current, always records a history entry that is one
\* root-level delta (the whole tree replaced), never an empty patch and
\* never the leaf-level deltas of the differ.
C33_ReplaceStateRootDelta ==
  [][(lastOp' = "replaceState" /\ ~isPaused)
       => /\ pointer' = pointer + 1
          /\ Len(history') = pointer + 2
          /\ Len(history'[pointer' + 1]) = 1
          /\ history'[pointer' + 1][1].path = <<>>
          /\ history'[pointer' + 1][1].value = current']_vars

(***************************************************************************)
(* C34 - the pending-change flag belongs to a pause.                       *)
(***************************************************************************)
\* C34: in every reachable state didChangeWhilePaused implies isPaused: the
\* flag is never true while the container is not paused, after any sequence
\* of setState, mutate, replaceState, patch, pause, resume, undo and redo.
C34_PendingOnlyWhilePaused ==
  didChangeWhilePaused => isPaused

\* pause() was called again in a pause that has a change pending
C34_Witness ==
  /\ lastOp = "pause"
  /\ isPaused
  /\ didChangeWhilePaused
  /\ current # prev

(***************************************************************************)
(* C35 - every unpaused change is one entry.                               *)
(***************************************************************************)
\* C35: every unpaused call of mutate, setState or replaceState appends
\* exactly one entry to history (after the entries up to pointer) and
\* increases pointer by exactly one, also when the patch computed is empty;
\* so canUndo is true after a mutate that changed nothing on a fresh
\* container.
C35_UnpausedChangeAppendsOne ==
  [][(lastOp' \in Changing /\ ~isPaused)
       => /\ pointer' = pointer + 1
          /\ Len(history') = pointer + 2
          /\ SubSeq(history', 1, pointer + 1) = SubSeq(history, 1, pointer + 1)
          /\ history'[pointer' + 1] = diff(current, current')
          /\ canUndo(Self')]_vars

\* a mutate that changed nothing was the first call on the container: the
\* history holds one empty patch and canUndo is true
C35_Witness ==
  /\ lastOp = "mutate"
  /\ calls = 1
  /\ current = initial
  /\ history = <<<<>>>>
  /\ pointer = 0
  /\ canUndo(Self)

(***************************************************************************)
(* C36 - patch() is not recorded.                                          *)
(***************************************************************************)
\* C36: patch(p) changes current by applying p and never changes history or
\* pointer, paused or not; an undo() made later applies the inverse of
\* history[pointer] to a state that includes the unrecorded patch.
C36_PatchLeavesHistory ==
  [][lastOp' = "patch"
       => /\ history' = history
          /\ pointer' = pointer
          /\ \E items \in Patches :
               current' = IF Throws(items) THEN current
                          ELSE applyItems(cloneDeep(current), items, 1)
          /\ canUndo(undoResume(Self'))
               => undo(Self').current
                    = undoItems(cloneDeep(current'),
                                at(undoResume(Self').history,
                                   undoResume(Self').pointer), 1)]_vars

\* patch() set age to 37 over a history whose only entry is empty: the
\* change is in no entry, and undo() leaves it in current
C36_Witness ==
  /\ lastOp = "patch"
  /\ ~isPaused
  /\ history = <<<<>>>>
  /\ pointer = 0
  /\ initial.props["age"] = Scalar(36)
  /\ current.props["age"] = Scalar(37)
  /\ undo(Self).current.props["age"] = Scalar(37)
  /\ undo(Self).pointer = -1

(***************************************************************************)
(* C37 - pause() in a pause.                                               *)
(***************************************************************************)
\* C37: pause() called again in a pause with changes pending does not begin
\* the coalescing anew: for pause(); setState(A); pause(); setState(B);
\* resume(), exactly one patch is appended, and it is the diff from the
\* snapshot before A to the snapshot after B.
C37_SecondPauseKeepsWindow ==
  [][(/\ lastOp' = "resume"
      /\ pauseLog.open
      /\ ~pauseLog.others
      /\ pauseLog.pauses >= 1
      /\ pauseLog.sets >= 1)
       => /\ history' = Append(SubSeq(history, 1, pointer + 1),
                               diff(pauseLog.start, current))
          /\ pointer' = pointer + 1]_vars

\* pause(); a change; pause(); another change: resume() will append the one
\* patch from the snapshot before the first change to current
C37_Witness ==
  /\ isPaused
  /\ didChangeWhilePaused
  /\ lastOp \in {"setState", "mutate"}
  /\ ~pauseLog.others
  /\ pauseLog.pauses = 1
  /\ pauseLog.sets = 2
  /\ prev = pauseLog.start
  /\ Len(diff(pauseLog.start, current)) = 2
  /\ resume(Self).history = Append(history, diff(pauseLog.start, current))

(***************************************************************************)
(* C38 - undo out of a pause, then redo.                                   *)
(***************************************************************************)
\* C38: a change undone out of a pause can be redone: for pause(), one or
\* more setState or mutate calls reaching the snapshot P, undo(), redo(),
\* current is structurally equal to P, pointer is one greater than before
\* the pause, and isPaused is false.
C38_UndoOutOfPauseRedo ==
  [][(/\ lastOp' = "undo"
      /\ isPaused
      /\ pauseLog.open
      /\ pauseLog.onlySets
      /\ pauseLog.sets >= 1)
       => /\ redo(Self').current = current
          /\ redo(Self').pointer = pauseLog.pointer + 1
          /\ ~redo(Self').isPaused]_vars

(***************************************************************************)
(* C39 - redo with a change pending.                                       *)
(***************************************************************************)
\* C39: redo() called while paused with a change pending commits the pending
\* change as one history entry, the entries after pointer discarded, sets
\* pointer to history.length - 1, and leaves current and prev unchanged: it
\* re-applies no entry undone before.
C39_RedoCommitsPending ==
  [][(lastOp' = "redo" /\ isPaused /\ didChangeWhilePaused)
       => /\ history' = Append(SubSeq(history, 1, pointer + 1),
                               diff(prev, current))
          /\ pointer' = Len(history') - 1
          /\ current' = current
          /\ prev' = prev]_vars

\* redo() committed the pending change of a pause as the only entry left:
\* the container is still paused and prev is still the snapshot before the
\* change
C39_Witness ==
  /\ lastOp = "redo"
  /\ isPaused
  /\ ~didChangeWhilePaused
  /\ calls >= 5
  /\ pointer = 0
  /\ Len(history) = 1
  /\ history[1] = diff(prev, current)
  /\ prev # current

(***************************************************************************)
(* C40 - applyPatch and the kind of the nodes it copies.                   *)
(***************************************************************************)
\* the node at a path under a value is an array
IsArrayAt(memory, value, path) ==
  /\ At(memory, value, path).tag = "ref"
  /\ memory[At(memory, value, path).v].array

\* C40: applyPatch preserves the kind of the nodes along the paths of the
\* differences: an array of the target that is an ancestor on the path of
\* a difference is, in the result, still an array, not a plain object
\* keyed by indices.
C40_ArrayAncestorsStayArrays ==
  (did \in {"applyPatch", "applyDiff"} /\ ~threw) =>
    \A path \in Ancestors(applied) :
      IsArrayAt(Before, target, path) => IsArrayAt(heap, result, path)

====
